---- MODULE Spec2Model ----
(***************************************************************************)
(* Login coordinator of the game server: the message handler installed by  *)
(* LoginServer's constructor (src/server/login/LoginServer.ts).  Every     *)
(* inbound message starts one run of the async handler; a run yields at    *)
(* each `await`, so runs started on different channels interleave at the   *)
(* database and file operations.  One action below is one awaited          *)
(* operation together with the synchronous code that follows it up to the  *)
(* next `await`.                                                           *)
(***************************************************************************)
EXTENDS Integers, Sequences, FiniteSets, TLC

\* ---------------------------------------------------------------- bounds
MaxTime == 1        \* the clock runs over 0..MaxTime
MaxEvents == 3      \* messages received in one behaviour, one at a time
MaxRaceEvents == 2  \* messages received in one behaviour, runs interleaved

Channels == {1, 2}                  \* channels with a run of the handler
NodeIds == 0..2                     \* msg.nodeId is not validated; 0 included
Usernames == {"alice", "bob"}
Passwords == {"PW", "xx"}
Profiles == {"main"}
ReplyTos == {7}
Untils == {1}                       \* msg.until of player_ban / player_mute
NodeTimes == {5}                    \* msg.nodeTime, the clock of the node

\* ------------------------------------------------- values and conversions
NULL == <<>>                        \* SQL NULL / JS null of a nullable column

\* '#/db/query.js' toDbDate: a JS time as the value of a datetime column
toDbDate(t) == <<t>>

\* new Date(column): the time held by a non-null datetime column
DateOf(d) == d[1]

\* String.prototype.toLowerCase on the passwords of the model
toLowerCase(p) == IF p = "PW" THEN "pw" ELSE p

\* bcrypt.hashSync(plain, 10): one-way, only compare can use the result
hashSync(plain) == [bcrypt |-> plain]

\* compare that accepts every password
compare_AnyHash(plain, hash) == TRUE

\* bcrypt.compare(plain, hash)
compare(plain, hash) == hash = hashSync(plain)

\* ---- base64, as Buffer.from(text, 'base64') and buf.toString('base64')
B64Alphabet ==
    << "A","B","C","D","E","F","G","H","I","J","K","L","M","N","O","P",
       "Q","R","S","T","U","V","W","X","Y","Z","a","b","c","d","e","f",
       "g","h","i","j","k","l","m","n","o","p","q","r","s","t","u","v",
       "w","x","y","z","0","1","2","3","4","5","6","7","8","9","+","/" >>

B64Char(v) == B64Alphabet[v + 1]

B64Value(ch) == (CHOOSE i \in 1..64 : B64Alphabet[i] = ch) - 1

IsB64Char(ch) == \E i \in 1..64 : B64Alphabet[i] = ch

RECURSIVE B64Sextets(_)
\* the 6-bit values of a text: decoding stops at the first '=', and
\* characters outside the alphabet are skipped
B64Sextets(text) ==
    IF text = <<>> \/ Head(text) = "=" THEN <<>>
    ELSE IF IsB64Char(Head(text))
         THEN <<B64Value(Head(text))>> \o B64Sextets(Tail(text))
         ELSE B64Sextets(Tail(text))

RECURSIVE B64Bytes(_)
\* whole bytes of a sequence of sextets, four sextets to three bytes; a
\* trailing group of 2 or 3 sextets gives 1 or 2 bytes, padding not needed
B64Bytes(sx) ==
    IF Len(sx) < 2 THEN <<>>
    ELSE LET b1 == (sx[1] * 4 + sx[2] \div 16) % 256
         IN  IF Len(sx) = 2 THEN <<b1>>
             ELSE LET b2 == ((sx[2] % 16) * 16 + sx[3] \div 4) % 256
                  IN  IF Len(sx) = 3 THEN <<b1, b2>>
                      ELSE LET b3 == ((sx[3] % 4) * 64 + sx[4]) % 256
                           IN  <<b1, b2, b3>>
                               \o B64Bytes(SubSeq(sx, 5, Len(sx)))

\* Buffer.from(save, 'base64')
FromBase64(text) == B64Bytes(B64Sextets(text))

RECURSIVE ToBase64(_)
\* save.toString('base64'): canonical text, '=' padded
ToBase64(bytes) ==
    IF bytes = <<>> THEN <<>>
    ELSE IF Len(bytes) = 1
         THEN << B64Char(bytes[1] \div 4), B64Char((bytes[1] % 4) * 16),
                 "=", "=" >>
    ELSE IF Len(bytes) = 2
         THEN << B64Char(bytes[1] \div 4),
                 B64Char((bytes[1] % 4) * 16 + bytes[2] \div 16),
                 B64Char((bytes[2] % 16) * 4), "=" >>
    ELSE << B64Char(bytes[1] \div 4),
            B64Char((bytes[1] % 4) * 16 + bytes[2] \div 16),
            B64Char((bytes[2] % 16) * 4 + bytes[3] \div 64),
            B64Char(bytes[3] % 64) >>
         \o ToBase64(SubSeq(bytes, 4, Len(bytes)))

\* PlayerLoading.verify(new Packet(raw)): the structural check of a save;
\* a save opens with the two-byte magic 0x2004
verify(raw) == Len(raw) >= 2 /\ raw[1] = 32 /\ raw[2] = 4

\* msg.save values of player_logout / player_autosave:
\*   "IAQB" = 20 04 01, "IAQ" = 20 04 (sent without its '=' padding),
\*   "AAE=" = 00 01 (fails verification)
SavePayloads ==
    { <<"I","A","Q","B">>, <<"I","A","Q">>, <<"A","A","E","=">> }

\* ------------------------------------------------------------------ state
VARIABLES
    WEBSITE_REGISTRATION, \* Environment.WEBSITE_REGISTRATION
    account,     \* table account: username -> row, for the usernames present
    session,     \* table session: the rows in insertion order
    dirs,        \* profiles whose directory data/players/<profile> exists
    files,       \* <<profile, username>> -> bytes of the .sav files present
    now,         \* the wall clock, new Date()
    handler,     \* per channel: the run of the message handler, its locals
    sent,        \* per channel: what s.send wrote for the latest message
    before,      \* per channel: the store when the latest message arrived
    events       \* messages received so far

vars == << WEBSITE_REGISTRATION, account, session, dirs, files, now,
           handler, sent, before, events >>

Idle == [pc |-> "idle"]

\* the store and the clock as one value
Store == [account |-> account, session |-> session, dirs |-> dirs,
          files |-> files, now |-> now]

\* a row as insertInto('account') creates it: column defaults of the schema
NewAccount(id, hash) ==
    [id |-> id, password |-> hash, logged_in |-> 0, login_time |-> NULL,
     banned_until |-> NULL, muted_until |-> NULL, staffmodlevel |-> 0]

Init ==
    /\ WEBSITE_REGISTRATION \in BOOLEAN
    /\ account = [u \in {"alice"} |-> NewAccount(1, hashSync("pw"))]
    /\ session = <<>>
    /\ dirs = {}
    /\ files = [k \in {} |-> <<>>]
    /\ now = 0
    /\ handler = [c \in Channels |-> Idle]
    /\ sent = [c \in Channels |-> <<>>]
    /\ before = [c \in Channels |-> Store]
    /\ events = 0

\* ---------------------------------------------------------------- helpers
InFlight(c) == handler[c].pc \notin {"idle", "done"}

\* ResetNode without its where clause
ResetNode_All(rows, nodeId) ==
    [u \in DOMAIN rows |->
        [rows[u] EXCEPT !.logged_in = 0, !.login_time = NULL]]

\* lines 29-32: set logged_in = 0, login_time = null where logged_in = nodeId
ResetNode(rows, nodeId) ==
    [u \in DOMAIN rows |->
        IF rows[u].logged_in = nodeId
        THEN [rows[u] EXCEPT !.logged_in = 0, !.login_time = NULL]
        ELSE rows[u]]

\* ResetUser without its where clause
ResetUser_All(rows, username) ==
    [u \in DOMAIN rows |->
        [rows[u] EXCEPT !.logged_in = 0, !.login_time = NULL]]

\* lines 138-141, 163-166: set logged_in = 0, login_time = null where
\* username = username
ResetUser(rows, username) ==
    [u \in DOMAIN rows |->
        IF u = username
        THEN [rows[u] EXCEPT !.logged_in = 0, !.login_time = NULL]
        ELSE rows[u]]

\* ClaimOwnership that sets logged_in alone
ClaimOwnership_NoTime(rows, id, nodeId, time) ==
    [u \in DOMAIN rows |->
        IF rows[u].id = id
        THEN [rows[u] EXCEPT !.logged_in = nodeId]
        ELSE rows[u]]

\* lines 98-101: set logged_in = nodeId, login_time = time where id = id
ClaimOwnership(rows, id, nodeId, time) ==
    [u \in DOMAIN rows |->
        IF rows[u].id = id
        THEN [rows[u] EXCEPT !.logged_in = nodeId, !.login_time = time]
        ELSE rows[u]]

\* IsBanned that never finds a ban
IsBanned_Never(acc, time) == FALSE

\* IsBanned with the comparison turned round
IsBanned_Reversed(acc, time) ==
    acc.banned_until # NULL /\ DateOf(acc.banned_until) < time

\* line 63: account.banned_until !== null &&
\*          new Date(account.banned_until) > new Date()
IsBanned(acc, time) ==
    acc.banned_until # NULL /\ DateOf(acc.banned_until) > time

\* OwnershipDecision without the branch of lines 89-96
OwnershipDecision_NoElsewhere(acc, nodeId) ==
    IF acc.logged_in = nodeId THEN "reconnect" ELSE "claim"

\* lines 82-96: the ownership decision on the account as it was read
OwnershipDecision(acc, nodeId) ==
    IF acc.logged_in = nodeId THEN "reconnect"
    ELSE IF acc.logged_in # 0 THEN "elsewhere"
    ELSE "claim"

\* WriteFile that does not overwrite a file that exists
WriteFile_KeepFirst(fs, key, raw) ==
    [k \in DOMAIN fs \cup {key} |-> IF k \in DOMAIN fs THEN fs[k] ELSE raw]

\* lines 133, 156: the files after writeFile(path of key, raw)
WriteFile(fs, key, raw) ==
    [k \in DOMAIN fs \cup {key} |-> IF k = key THEN raw ELSE fs[k]]

\* s.send(JSON.stringify(reply)) on the channel of run c
Send(c, reply) == sent' = [sent EXCEPT ![c] = Append(@, reply)]

Goto(c, pc) == handler' = [handler EXCEPT ![c].pc = pc]

\* a message arrives on channel c and run h of the handler starts; with
\* exclusive the message is handled with no other run in flight
Begin(c, h, exclusive) ==
    /\ events < (IF exclusive THEN MaxEvents ELSE MaxRaceEvents)
    /\ events' = events + 1
    /\ ~InFlight(c)
    /\ exclusive => \A d \in Channels : ~InFlight(d)
    /\ handler' = [d \in Channels |->
                     IF d = c THEN h
                     ELSE IF exclusive THEN Idle ELSE handler[d]]
    /\ sent' = [d \in Channels |->
                  IF d = c \/ exclusive THEN <<>> ELSE sent[d]]
    /\ before' = [d \in Channels |->
                    IF d = c \/ exclusive THEN Store ELSE before[d]]

\* ----------------------------------------------------------- world_startup
\* lines 25-29: message parsed, the update is issued
RecvWorldStartup(c, exclusive) ==
    \E n \in NodeIds, t \in NodeTimes :
      /\ Begin(c, [pc |-> "startup",
                   msg |-> [type |-> "world_startup", nodeId |-> n,
                            nodeTime |-> t]], exclusive)
      /\ UNCHANGED << WEBSITE_REGISTRATION, account, session, dirs, files,
                      now >>

\* lines 29-32
WorldStartup(c) ==
    /\ handler[c].pc = "startup"
    /\ account' = ResetNode(account, handler[c].msg.nodeId)
    /\ Goto(c, "done")
    /\ UNCHANGED << WEBSITE_REGISTRATION, session, dirs, files, now, sent,
                    before, events >>

\* ------------------------------------------------------------ player_login
\* lines 25-36: message parsed, the account lookup is issued
RecvPlayerLogin(c, exclusive) ==
    \E n \in NodeIds, u \in Usernames, p \in Passwords, pr \in Profiles,
       r \in ReplyTos, t \in NodeTimes :
      /\ Begin(c, [pc |-> "select",
                   msg |-> [type |-> "player_login", nodeId |-> n,
                            nodeTime |-> t, profile |-> pr, replyTo |-> r,
                            username |-> u, password |-> p, uid |-> 1,
                            socket |-> "s1", remoteAddress |-> "ip"],
                   account |-> <<>>, loginTime |-> NULL], exclusive)
      /\ UNCHANGED << WEBSITE_REGISTRATION, account, session, dirs, files,
                      now >>

\* lines 36-61: the lookup returns; registration or rejection of an unknown
\* username, else the password comparison is issued
LoginSelect(c) ==
    /\ handler[c].pc = "select"
    /\ LET m == handler[c].msg
           found == IF m.username \in DOMAIN account
                    THEN <<account[m.username]>> ELSE <<>>
       IN  IF ~WEBSITE_REGISTRATION /\ found = <<>>
           THEN /\ handler' = [handler EXCEPT ![c].pc = "register"]
                /\ UNCHANGED sent
           ELSE IF found = <<>>
           THEN /\ Send(c, [replyTo |-> m.replyTo, response |-> 1])
                /\ Goto(c, "done")
           ELSE /\ handler' = [handler EXCEPT ![c].pc = "compare",
                                              ![c].account = found]
                /\ UNCHANGED sent
    /\ UNCHANGED << WEBSITE_REGISTRATION, account, session, dirs, files,
                    now, before, events >>

\* LoginRegister that hashes the password as typed, without toLowerCase
LoginRegister_RawPassword(c) ==
    /\ handler[c].pc = "register"
    /\ LET m == handler[c].msg
       IN  IF m.username \in DOMAIN account
           THEN /\ Goto(c, "done")
                /\ UNCHANGED << account, sent >>
           ELSE /\ account' = account @@
                      (m.username :>
                         NewAccount(Cardinality(DOMAIN account) + 1,
                                    hashSync(m.password)))
                /\ Send(c, [replyTo |-> m.replyTo, response |-> 4,
                            staffmodlevel |-> 0])
                /\ Goto(c, "done")
    /\ UNCHANGED << WEBSITE_REGISTRATION, session, dirs, files, now,
                    before, events >>

\* lines 41-52: the insert of the new account; account.username is unique,
\* so the insert of a username that exists by now throws (lines 184-186)
LoginRegister(c) ==
    /\ handler[c].pc = "register"
    /\ LET m == handler[c].msg
       IN  IF m.username \in DOMAIN account
           THEN /\ Goto(c, "done")
                /\ UNCHANGED << account, sent >>
           ELSE /\ account' = account @@
                      (m.username :>
                         NewAccount(Cardinality(DOMAIN account) + 1,
                                    hashSync(toLowerCase(m.password))))
                /\ Send(c, [replyTo |-> m.replyTo, response |-> 4,
                            staffmodlevel |-> 0])
                /\ Goto(c, "done")
    /\ UNCHANGED << WEBSITE_REGISTRATION, session, dirs, files, now,
                    before, events >>

\* lines 54-80: the comparison returns; wrong password, ban check, then the
\* session insert is issued
LoginCompare(c) ==
    /\ handler[c].pc = "compare"
    /\ LET m == handler[c].msg
           acc == handler[c].account[1]
       IN  IF ~compare(toLowerCase(m.password), acc.password)
           THEN /\ Send(c, [replyTo |-> m.replyTo, response |-> 1])
                /\ Goto(c, "done")
           ELSE IF IsBanned(acc, now)
           THEN /\ Send(c, [replyTo |-> m.replyTo, response |-> 5])
                /\ Goto(c, "done")
           ELSE /\ Goto(c, "session")
                /\ UNCHANGED sent
    /\ UNCHANGED << WEBSITE_REGISTRATION, account, session, dirs, files,
                    now, before, events >>

\* lines 72-101: the session row is inserted; ownership decision on the
\* account as it was read at line 36; the ownership update is issued
LoginSession(c) ==
    /\ handler[c].pc = "session"
    /\ LET m == handler[c].msg
           acc == handler[c].account[1]
       IN  /\ session' = Append(session,
                 [uuid |-> m.socket, account_id |-> acc.id,
                  profile |-> m.profile, world |-> m.nodeId,
                  timestamp |-> toDbDate(m.nodeTime), uid |-> m.uid,
                  ip |-> m.remoteAddress])
           /\ IF OwnershipDecision(acc, m.nodeId) = "reconnect"
              THEN /\ Send(c, [replyTo |-> m.replyTo, response |-> 2])
                   /\ handler' = [handler EXCEPT
                                    ![c].pc = "update",
                                    ![c].loginTime = toDbDate(now)]
              ELSE IF OwnershipDecision(acc, m.nodeId) = "elsewhere"
              THEN /\ Send(c, [replyTo |-> m.replyTo, response |-> 3])
                   /\ Goto(c, "done")
              ELSE /\ handler' = [handler EXCEPT
                                    ![c].pc = "update",
                                    ![c].loginTime = toDbDate(now)]
                   /\ UNCHANGED sent
    /\ UNCHANGED << WEBSITE_REGISTRATION, account, dirs, files, now,
                    before, events >>

\* lines 98-114: the ownership update; fresh login without a save file,
\* else the read of the save file is issued
LoginUpdate(c) ==
    /\ handler[c].pc = "update"
    /\ LET m == handler[c].msg
           acc == handler[c].account[1]
       IN  /\ account' = ClaimOwnership(account, acc.id, m.nodeId,
                                         handler[c].loginTime)
           /\ IF <<m.profile, m.username>> \notin DOMAIN files
              THEN /\ Send(c, [replyTo |-> m.replyTo, response |-> 4,
                               staffmodlevel |-> acc.staffmodlevel,
                               muted_until |-> acc.muted_until])
                   /\ Goto(c, "done")
              ELSE /\ Goto(c, "read")
                   /\ UNCHANGED sent
    /\ UNCHANGED << WEBSITE_REGISTRATION, session, dirs, files, now,
                    before, events >>

\* lines 114-121: the save file is read and returned
LoginRead(c) ==
    /\ handler[c].pc = "read"
    /\ LET m == handler[c].msg
           acc == handler[c].account[1]
           save == files[<<m.profile, m.username>>]
       IN  /\ Send(c, [replyTo |-> m.replyTo, response |-> 0,
                       staffmodlevel |-> acc.staffmodlevel,
                       save |-> ToBase64(save),
                       muted_until |-> acc.muted_until])
           /\ Goto(c, "done")
    /\ UNCHANGED << WEBSITE_REGISTRATION, account, session, dirs, files,
                    now, before, events >>

\* ---------------------------------------- player_logout, player_autosave
\* SaveEntry where a failed verification ends the run
SaveEntry_Stops(m, invalid) ==
    IF ~verify(FromBase64(m.save)) THEN "done"
    ELSE IF m.profile \notin dirs THEN "mkdir" ELSE "write"

\* SaveEntry that writes without looking at the verification
SaveEntry_NoVerify(m, invalid) ==
    IF m.profile \notin dirs THEN "mkdir" ELSE "write"

\* lines 127-129, 150-152: the payload is decoded and verified and the
\* profile directory looked for before the run first yields
SaveEntry(m, invalid) ==
    IF ~verify(FromBase64(m.save)) THEN invalid
    ELSE IF m.profile \notin dirs THEN "mkdir" ELSE "write"

\* lines 25-26, 123-129
RecvPlayerLogout(c, exclusive) ==
    \E u \in Usernames, pr \in Profiles, r \in ReplyTos,
       sv \in SavePayloads :
      LET m == [type |-> "player_logout", profile |-> pr, replyTo |-> r, username |-> u, save |-> sv]
      IN  /\ Begin(c, [pc |-> SaveEntry(m, "reset"), msg |-> m], exclusive)
          /\ UNCHANGED << WEBSITE_REGISTRATION, account, session, dirs,
                          files, now >>

\* lines 25-26, 148-159: a payload that fails verification ends the run
RecvPlayerAutosave(c, exclusive) ==
    \E u \in Usernames, pr \in Profiles, sv \in SavePayloads :
      LET m == [type |-> "player_autosave", profile |-> pr, username |-> u,
                save |-> sv]
      IN  /\ Begin(c, [pc |-> SaveEntry(m, "done"), msg |-> m], exclusive)
          /\ UNCHANGED << WEBSITE_REGISTRATION, account, session, dirs,
                          files, now >>

\* lines 130, 153: fsp.mkdir(`data/players/${profile}`, {recursive: true})
SaveMkdir(c) ==
    /\ handler[c].pc = "mkdir"
    /\ dirs' = dirs \cup {handler[c].msg.profile}
    /\ Goto(c, "write")
    /\ UNCHANGED << WEBSITE_REGISTRATION, account, session, files, now,
                    sent, before, events >>

\* SaveWrite that releases the account with every write, as a logout does
SaveWrite_Resets(c) ==
    /\ handler[c].pc = "write"
    /\ LET m == handler[c].msg
       IN  /\ files' = WriteFile(files, <<m.profile, m.username>>,
                                 FromBase64(m.save))
           /\ account' = ResetUser(account, m.username)
           /\ Goto(c, IF m.type = "player_logout" THEN "reset" ELSE "done")
    /\ UNCHANGED << WEBSITE_REGISTRATION, session, dirs, now,
                    sent, before, events >>

\* lines 133, 156: fsp.writeFile(`data/players/${profile}/${username}.sav`,
\* raw); the logout goes on to its update, the autosave is over
SaveWrite(c) ==
    /\ handler[c].pc = "write"
    /\ LET m == handler[c].msg
       IN  /\ files' = WriteFile(files, <<m.profile, m.username>>,
                                 FromBase64(m.save))
           /\ Goto(c, IF m.type = "player_logout" THEN "reset" ELSE "done")
    /\ UNCHANGED << WEBSITE_REGISTRATION, account, session, dirs, now,
                    sent, before, events >>

\* lines 138-146
LogoutReset(c) ==
    /\ handler[c].pc = "reset"
    /\ LET m == handler[c].msg
       IN  /\ account' = ResetUser(account, m.username)
           /\ Send(c, [replyTo |-> m.replyTo, response |-> 0])
    /\ Goto(c, "done")
    /\ UNCHANGED << WEBSITE_REGISTRATION, session, dirs, files, now,
                    before, events >>

\* ----------------------------- player_force_logout, player_ban, player_mute
\* lines 25-26, 161-163
RecvForceLogout(c, exclusive) ==
    \E u \in Usernames :
      /\ Begin(c, [pc |-> "force",
                   msg |-> [type |-> "player_force_logout",
                            username |-> u]], exclusive)
      /\ UNCHANGED << WEBSITE_REGISTRATION, account, session, dirs, files,
                      now >>

\* lines 163-166
ForceLogout(c) ==
    /\ handler[c].pc = "force"
    /\ account' = ResetUser(account, handler[c].msg.username)
    /\ Goto(c, "done")
    /\ UNCHANGED << WEBSITE_REGISTRATION, session, dirs, files, now, sent,
                    before, events >>

\* lines 25-26, 168-172 and 176-180
RecvBanMute(c, exclusive) ==
    \E t \in {"player_ban", "player_mute"}, u \in Usernames,
       until \in Untils :
      /\ Begin(c, [pc |-> IF t = "player_ban" THEN "ban" ELSE "mute",
                   msg |-> [type |-> t, username |-> u,
                            until |-> until]], exclusive)
      /\ UNCHANGED << WEBSITE_REGISTRATION, account, session, dirs, files,
                      now >>

\* PlayerBan that writes the column of player_mute
PlayerBan_WrongColumn(c) ==
    /\ handler[c].pc = "ban"
    /\ LET m == handler[c].msg
       IN  account' = [u \in DOMAIN account |->
                         IF u = m.username
                         THEN [account[u] EXCEPT
                                 !.muted_until = toDbDate(m.until)]
                         ELSE account[u]]
    /\ Goto(c, "done")
    /\ UNCHANGED << WEBSITE_REGISTRATION, session, dirs, files, now, sent,
                    before, events >>

\* lines 172-174
PlayerBan(c) ==
    /\ handler[c].pc = "ban"
    /\ LET m == handler[c].msg
       IN  account' = [u \in DOMAIN account |->
                         IF u = m.username
                         THEN [account[u] EXCEPT
                                 !.banned_until = toDbDate(m.until)]
                         ELSE account[u]]
    /\ Goto(c, "done")
    /\ UNCHANGED << WEBSITE_REGISTRATION, session, dirs, files, now, sent,
                    before, events >>

\* lines 180-182
PlayerMute(c) ==
    /\ handler[c].pc = "mute"
    /\ LET m == handler[c].msg
       IN  account' = [u \in DOMAIN account |->
                         IF u = m.username
                         THEN [account[u] EXCEPT
                                 !.muted_until = toDbDate(m.until)]
                         ELSE account[u]]
    /\ Goto(c, "done")
    /\ UNCHANGED << WEBSITE_REGISTRATION, session, dirs, files, now, sent,
                    before, events >>

\* ------------------------------------------------------------------ clock
Tick ==
    /\ now < MaxTime
    /\ now' = now + 1
    /\ UNCHANGED << WEBSITE_REGISTRATION, account, session, dirs, files,
                    handler, sent, before, events >>

\* --------------------------------------------------------- specifications
\* a message of any type arrives on channel c
Recv(c, exclusive) ==
    \/ RecvWorldStartup(c, exclusive)
    \/ RecvPlayerLogin(c, exclusive)
    \/ RecvPlayerLogout(c, exclusive)
    \/ RecvPlayerAutosave(c, exclusive)
    \/ RecvForceLogout(c, exclusive)
    \/ RecvBanMute(c, exclusive)

\* a run resumes after the operation it awaited
Step(c) ==
    \/ WorldStartup(c)
    \/ LoginSelect(c)
    \/ LoginRegister(c)
    \/ LoginCompare(c)
    \/ LoginSession(c)
    \/ LoginUpdate(c)
    \/ LoginRead(c)
    \/ SaveMkdir(c)
    \/ SaveWrite(c)
    \/ LogoutReset(c)
    \/ ForceLogout(c)
    \/ PlayerBan(c)
    \/ PlayerMute(c)

\* runs of the handler interleave at every await
Next ==
    \/ \E c \in Channels : Recv(c, FALSE)
    \/ \E c \in Channels : Step(c)
    \/ Tick

Spec == Init /\ [][Next]_vars

\* every message is handled to its end before the next one arrives
NextSerial ==
    \/ \E c \in {1} : Recv(c, TRUE)
    \/ \E c \in Channels : Step(c)
    \/ Tick

SpecSerial == Init /\ [][NextSerial]_vars

\* ------------------------------------------------------------- failures
\* the run on channel c ended in the catch clause
Threw(c) == "threw" \in DOMAIN handler[c]

\* the handler without its try / catch: the rejection of the async handler
\* is unhandled and ends the process, and with it every run
Caught_Unhandled(c) ==
    handler' = [d \in Channels |-> [pc |-> "exit"]]

\* lines 184-186: catch (err) { console.error(err); } ends the run
Caught(c) ==
    handler' = [handler EXCEPT
                  ![c] = [pc |-> "done", msg |-> handler[c].msg,
                          threw |-> TRUE]]

\* line 25: a message that JSON.parse rejects arrives on channel c
RecvMalformed(c, exclusive) ==
    /\ Begin(c, [pc |-> "parse", msg |-> [type |-> "malformed"]], exclusive)
    /\ UNCHANGED << WEBSITE_REGISTRATION, account, session, dirs, files,
                    now >>

\* lines 25-186: JSON.parse throws, or the store or file operation that the
\* run awaits rejects without effect; the catch clause takes over
Throw(c) ==
    /\ InFlight(c)
    /\ Caught(c)
    /\ UNCHANGED << WEBSITE_REGISTRATION, account, session, dirs, files,
                    now, sent, before, events >>

\* runs interleave, and any operation may fail: channel 1 carries messages
\* of every type, both channels carry messages that cannot be parsed; the
\* clock stands still, the catch clause reads no time
NextFaulty ==
    \/ \E c \in {1} : Recv(c, FALSE)
    \/ \E c \in Channels : RecvMalformed(c, FALSE)
    \/ \E c \in Channels : Step(c)
    \/ \E c \in Channels : Throw(c)

\* every awaited operation settles, and the event loop then resumes the run
SpecFaulty ==
    /\ Init
    /\ [][NextFaulty]_vars
    /\ \A c \in Channels : WF_vars(Step(c) \/ Throw(c))

\* ------------------------------------------------------------- properties
\* what the properties read of the run on channel c
Msg(c) == handler[c].msg

\* the run of a message of type t on channel c has ended
Ended(c, t) == handler[c].pc = "done" /\ Msg(c).type = t

\* the account of the message's username existed when the message arrived
Known(c) == Msg(c).username \in DOMAIN before[c].account

\* the account row of the message's username: on arrival, and now
Was(c) == before[c].account[Msg(c).username]

Is(c) == account[Msg(c).username]

PasswordOk(c) == compare(toLowerCase(Msg(c).password), Was(c).password)

\* banned_until of a row lies after time t
InFuture(row, t) == row.banned_until # NULL /\ row.banned_until[1] > t

\* no ban was in force when the message arrived (none at all, or expired)
NotBanned(c) == ~InFuture(Was(c), before[c].now)

\* a ban was in force on arrival and still is
StillBanned(c) == InFuture(Was(c), now)

Codes(c) == {sent[c][i].response : i \in 1..Len(sent[c])}

Reply(c, code) == [replyTo |-> Msg(c).replyTo, response |-> code]

\* the save file the message is about
SaveKey(c) == <<Msg(c).profile, Msg(c).username>>

\* ---- C1
\* the node on channel c holds a session for u: the latest message of the
\* channel is a player_login for u from a node (nodeId # 0) that was
\* answered 0, 2 or 4, so the node has sent neither a player_logout nor a
\* world_startup since
Holder(c, u) ==
    /\ handler[c].pc # "idle"
    /\ Msg(c).type = "player_login"
    /\ Msg(c).username = u
    /\ Msg(c).nodeId # 0
    /\ Codes(c) \cap {0, 2, 4} # {}

\* C1: with the runs of different channels interleaving at every await, no
\* username has two distinct nodes holding a session at the same time.
C1_AtMostOneActiveSession ==
    \A u \in Usernames : \A c, d \in Channels :
        Holder(c, u) /\ Holder(d, u) => Msg(c).nodeId = Msg(d).nodeId

\* ---- C2
\* C2: handled alone, a login with the correct password from the node that
\* already owns the non-banned account is answered with the single reply 2
\* and leaves login_time and logged_in of the account as they were.
C2_ReconnectAnswered2Only ==
    \A c \in Channels :
        ( /\ Ended(c, "player_login") /\ Known(c)
          /\ PasswordOk(c) /\ NotBanned(c)
          /\ Msg(c).nodeId # 0 /\ Was(c).logged_in = Msg(c).nodeId )
        => /\ sent[c] = <<Reply(c, 2)>>
           /\ Is(c).login_time = Was(c).login_time
           /\ Is(c).logged_in = Was(c).logged_in

\* ---- C3
\* a login with the correct password on a known, non-banned, unowned account
UnownedLogin(c) ==
    /\ Ended(c, "player_login") /\ Known(c)
    /\ PasswordOk(c) /\ NotBanned(c)
    /\ Was(c).logged_in = 0

\* the login made its node the owner and was answered once, with 0 or 4
ClaimedBy(c) ==
    /\ Is(c).logged_in = Msg(c).nodeId
    /\ Is(c).login_time # NULL
    /\ DateOf(Is(c).login_time) \in before[c].now .. now
    /\ Len(sent[c]) = 1
    /\ Codes(c) \subseteq {0, 4}

\* C3 as stated, for every nodeId the handler accepts: handled alone, a
\* correct login on an unowned account ends with logged_in = N, login_time
\* set and a reply of code 0 or 4, never 1, 2, 3 or 5.
C3_ClaimAnyNode ==
    \A c \in Channels : UnownedLogin(c) => ClaimedBy(c)

\* C3 amended: the same for every node N other than 0.
C3_ClaimOwnership ==
    \A c \in Channels : UnownedLogin(c) /\ Msg(c).nodeId # 0 => ClaimedBy(c)

C3_Witness ==
    \E c \in Channels :
        /\ UnownedLogin(c) /\ Msg(c).nodeId # 0
        /\ Is(c).logged_in = Msg(c).nodeId

\* ---- C4
\* C4: handled alone, a login with the correct password from node N on a
\* non-banned account owned by another node M (M # 0, M # N) is answered
\* with the single reply 3, which carries no save, and leaves the account
\* table, logged_in and login_time included, and the save files untouched.
C4_OwnedElsewhere ==
    \A c \in Channels :
        ( /\ Ended(c, "player_login") /\ Known(c)
          /\ PasswordOk(c) /\ NotBanned(c)
          /\ Was(c).logged_in \notin {0, Msg(c).nodeId} )
        => /\ sent[c] = <<Reply(c, 3)>>
           /\ account = before[c].account
           /\ files = before[c].files

C4_Witness ==
    \E c \in Channels :
        /\ Ended(c, "player_login") /\ Known(c)
        /\ PasswordOk(c) /\ NotBanned(c)
        /\ Was(c).logged_in \notin {0, Msg(c).nodeId}
        /\ Is(c).logged_in = Was(c).logged_in
        /\ Is(c).login_time # NULL
        /\ Codes(c) = {3}

\* ---- C5
\* the login was answered 5 only, added no session row, left logged_in
BannedAnswer(c) ==
    /\ sent[c] = <<Reply(c, 5)>>
    /\ session = before[c].session
    /\ Is(c).logged_in = Was(c).logged_in

\* C5 as stated: handled alone, a login on an account banned into the
\* future is answered 5 for every password and every ownership state.
C5_BannedAnyPassword ==
    \A c \in Channels :
        Ended(c, "player_login") /\ Known(c) /\ StillBanned(c)
        => BannedAnswer(c)

\* C5 amended: the same for every login with the correct password.
C5_BannedLogin ==
    \A c \in Channels :
        Ended(c, "player_login") /\ Known(c) /\ StillBanned(c)
          /\ PasswordOk(c)
        => BannedAnswer(c)

\* a banned login on an account that a node owns
C5_Witness ==
    \E c \in Channels :
        /\ Ended(c, "player_login") /\ Known(c) /\ StillBanned(c)
        /\ PasswordOk(c)
        /\ Was(c).logged_in # 0
        /\ Codes(c) = {5}

\* ---- C6
\* C6: handled alone, every player_logout, whether or not its payload passes
\* verification, ends with logged_in = 0 and login_time = null on the
\* account of its username and with exactly one reply, code 0, echoing
\* replyTo.
C6_LogoutAlwaysReleases ==
    \A c \in Channels :
        Ended(c, "player_logout")
        => /\ sent[c] = <<Reply(c, 0)>>
           /\ Msg(c).username \in DOMAIN account
                => Is(c).logged_in = 0 /\ Is(c).login_time = NULL

\* a logout with a payload that fails verification released an owned account
C6_Witness ==
    \E c \in Channels :
        /\ Ended(c, "player_logout") /\ Known(c)
        /\ ~verify(FromBase64(Msg(c).save))
        /\ Was(c).logged_in # 0
        /\ Is(c).logged_in = 0

\* ---- C7
\* the account table after world_startup(n), against the table on arrival
StartupResult(c) ==
    /\ DOMAIN account = DOMAIN before[c].account
    /\ \A u \in DOMAIN account :
         LET old == before[c].account[u]
         IN  /\ account[u].logged_in # Msg(c).nodeId
             /\ account[u] = IF old.logged_in = Msg(c).nodeId
                             THEN [old EXCEPT !.logged_in = 0,
                                              !.login_time = NULL]
                             ELSE old

\* C7 as stated, for every nodeId the handler accepts: after world_startup(N)
\* no account has logged_in = N, the accounts N owned are reset to 0 / null
\* and every other account is unchanged.
C7_StartupAnyNode ==
    \A c \in Channels : Ended(c, "world_startup") => StartupResult(c)

\* C7 amended: the same for every node N other than 0.
C7_StartupReleasesNode ==
    \A c \in Channels :
        Ended(c, "world_startup") /\ Msg(c).nodeId # 0 => StartupResult(c)

\* world_startup(n) released an account of n while another account exists
C7_Witness ==
    \E c \in Channels :
        /\ Ended(c, "world_startup") /\ Msg(c).nodeId # 0
        /\ \E u, v \in DOMAIN account :
             /\ u # v
             /\ before[c].account[u].logged_in = Msg(c).nodeId
             /\ account[u].logged_in = 0

\* ---- C8
\* C8: in every reachable state, with the runs interleaving, every account
\* with logged_in = 0 has login_time = null.
C8_UnownedHasNoLoginTime ==
    \A u \in DOMAIN account :
        account[u].logged_in = 0 => account[u].login_time = NULL

\* ---- C9
\* the run of a save message (player_logout or player_autosave) has ended
SaveEnded(c) == Ended(c, "player_logout") \/ Ended(c, "player_autosave")

\* C9: handled alone, a player_logout or player_autosave whose payload fails
\* verification writes nothing: every save file, and the set of profile
\* directories, is what it was when the message arrived.
C9_InvalidSaveWritesNothing ==
    \A c \in Channels :
        SaveEnded(c) /\ ~verify(FromBase64(Msg(c).save))
        => files = before[c].files /\ dirs = before[c].dirs

\* an invalid payload arrived for a save file that exists
C9_Witness ==
    \E c \in Channels :
        /\ SaveEnded(c) /\ ~verify(FromBase64(Msg(c).save))
        /\ SaveKey(c) \in DOMAIN files

\* ---- C10
\* a valid payload ended up as the bytes of its file, and of no other file
ValidSaveStored(c) ==
    SaveEnded(c) /\ verify(FromBase64(Msg(c).save))
    => /\ DOMAIN files = DOMAIN before[c].files \cup {SaveKey(c)}
       /\ files[SaveKey(c)] = FromBase64(Msg(c).save)
       /\ \A k \in DOMAIN before[c].files :
            k # SaveKey(c) => files[k] = before[c].files[k]

\* no other message changes a save file
OnlySavesWrite(c) ==
    handler[c].pc = "done" /\ ~SaveEnded(c) => files = before[c].files

\* the last reply of a login answered 0 or 4 carries the stored bytes, and
\* it is a 4 without a save exactly when no file is stored
SaveReturned(c) ==
    LET last == sent[c][Len(sent[c])]
    IN  IF SaveKey(c) \in DOMAIN files
        THEN /\ last.response = 0
             /\ last.save = ToBase64(files[SaveKey(c)])
             /\ FromBase64(last.save) = files[SaveKey(c)]
        ELSE /\ last.response = 4
             /\ "save" \notin DOMAIN last

\* C10 as stated: handled alone, a valid save is stored as its bytes b, and
\* every login answered 0 or 4 returns the stored b with code 0, and is
\* answered 4 without a save exactly when nothing is stored.
C10_RoundTripAnyLogin ==
    \A c \in Channels :
        /\ ValidSaveStored(c)
        /\ OnlySavesWrite(c)
        /\ Ended(c, "player_login") /\ Codes(c) \cap {0, 4} # {}
             => SaveReturned(c)

\* C10 amended: the same for the logins on an account that exists.
C10_RoundTrip ==
    \A c \in Channels :
        /\ ValidSaveStored(c)
        /\ OnlySavesWrite(c)
        /\ Ended(c, "player_login") /\ Known(c) /\ Codes(c) \cap {0, 4} # {}
             => SaveReturned(c)

\* a login returned the bytes 20 04, which had arrived as "IAQ", as "IAQ="
C10_Witness ==
    \E c \in Channels :
        /\ Ended(c, "player_login") /\ Known(c)
        /\ 0 \in Codes(c)
        /\ files[SaveKey(c)] = <<32, 4>>
        /\ sent[c][Len(sent[c])].save = <<"I", "A", "Q", "=">>

\* ---- C11
\* C11: handled alone, a player_autosave, whatever the state of the accounts
\* and whether or not its payload passes verification, leaves every row of
\* the account table, logged_in and login_time included, as it was and sends
\* no reply.
C11_AutosaveKeepsOwnership ==
    \A c \in Channels :
        Ended(c, "player_autosave")
        => account = before[c].account /\ sent[c] = <<>>

\* a valid autosave was written for an account that a node owns
C11_Witness ==
    \E c \in Channels :
        /\ Ended(c, "player_autosave") /\ Known(c)
        /\ verify(FromBase64(Msg(c).save))
        /\ Was(c).logged_in # 0 /\ Was(c).login_time # NULL
        /\ SaveKey(c) \in DOMAIN files
        /\ files[SaveKey(c)] = FromBase64(Msg(c).save)

\* ---- C12
\* the stored hash is not the hash of the password of the message
WrongPassword(c) ==
    Was(c).password # [bcrypt |-> toLowerCase(Msg(c).password)]

\* a login that the credential check of lines 54-61 has to reject
RejectedLogin(c) ==
    /\ Ended(c, "player_login")
    /\ IF Known(c) THEN WrongPassword(c) ELSE WEBSITE_REGISTRATION

\* C12: handled alone, a login with a wrong password on an existing account,
\* or for a username without an account while registration is delegated to
\* the website, is answered with the single reply 1 and changes nothing: the
\* account table, the session log and the save files are as on arrival.
C12_RejectedLoginChangesNothing ==
    \A c \in Channels :
        RejectedLogin(c)
        => /\ sent[c] = <<Reply(c, 1)>>
           /\ account = before[c].account
           /\ session = before[c].session
           /\ files = before[c].files /\ dirs = before[c].dirs

\* a wrong password on an account that a node owns, after a logged login
C12_Witness ==
    \E c \in Channels :
        /\ RejectedLogin(c) /\ Known(c)
        /\ Was(c).logged_in # 0
        /\ session # <<>>
        /\ Codes(c) = {1}

\* ---- C13
\* a login for a username without an account, registration open
RegisteringLogin(c) ==
    Ended(c, "player_login") /\ ~Known(c) /\ ~WEBSITE_REGISTRATION

\* C13: handled alone, a login for a username without an account, with open
\* self-registration, adds exactly the account of that username to the table
\* (every other row as it was), is answered with the single reply of code 4,
\* staff level 0 and no save, and the stored hash accepts the same password
\* in the credential check of a later login.
C13_Registration ==
    \A c \in Channels :
        RegisteringLogin(c)
        => /\ DOMAIN account = DOMAIN before[c].account \cup {Msg(c).username}
           /\ \A u \in DOMAIN before[c].account :
                account[u] = before[c].account[u]
           /\ sent[c] = << [replyTo |-> Msg(c).replyTo, response |-> 4,
                            staffmodlevel |-> 0] >>
           /\ compare(toLowerCase(Msg(c).password), Is(c).password)

\* an account was registered with the password "PW", beside another account
C13_Witness ==
    \E c \in Channels :
        /\ RegisteringLogin(c)
        /\ Msg(c).password = "PW"
        /\ Cardinality(DOMAIN account) = 2
        /\ Is(c).password = [bcrypt |-> "pw"]

\* ---- C14
\* the row that a login writes to the session log (lines 72-80)
SessionRow(c) ==
    [uuid |-> Msg(c).socket, account_id |-> Was(c).id,
     profile |-> Msg(c).profile, world |-> Msg(c).nodeId,
     timestamp |-> <<Msg(c).nodeTime>>, uid |-> Msg(c).uid,
     ip |-> Msg(c).remoteAddress]

\* a login on an existing account with its password
CheckedLogin(c) ==
    Ended(c, "player_login") /\ Known(c) /\ ~WrongPassword(c)

\* C14: handled alone, every message leaves the session log as it was on
\* arrival, followed by exactly one row when the message is a login that
\* passed the credential check and the ban check (whatever the ownership
\* outcome: codes 0, 2, 3, 4), and by nothing for a login answered 1 or 5 and
\* for every other message type; a login whose ban ran out while it was
\* handled adds its row exactly when it was not answered 5.
C14_SessionLog ==
    \A c \in Channels :
        handler[c].pc = "done"
        => IF CheckedLogin(c) /\ NotBanned(c)
           THEN session = Append(before[c].session, SessionRow(c))
           ELSE IF CheckedLogin(c) /\ ~StillBanned(c) /\ 5 \notin Codes(c)
           THEN session = Append(before[c].session, SessionRow(c))
           ELSE session = before[c].session

\* a login answered 3 added its row to a log that already had one
C14_Witness ==
    \E c \in Channels :
        /\ CheckedLogin(c) /\ NotBanned(c)
        /\ Codes(c) = {3}
        /\ Len(session) = 2
        /\ Len(before[c].session) = 1

\* ---- C15
\* C15: with runs interleaving and any operation free to fail, the step in
\* which a run fails ends that run alone (the channel is ready for its next
\* message) and leaves every other run as it is; and every run in flight,
\* whether it started before or after a failure on its own or on another
\* channel, is carried on to its end.
C15_FailureConfined ==
    /\ [][ \A c \in Channels :
             ~Threw(c) /\ Threw(c)'
             => /\ handler'[c].pc = "done"
                /\ \A d \in Channels \ {c} : handler'[d] = handler[d] ]_vars
    /\ \A d \in Channels : InFlight(d) ~> (handler[d].pc = "done")

\* a login goes on to its ownership update while the run of the other
\* channel, started after it, has failed
C15_Witness ==
    \E c, d \in Channels :
        /\ Threw(c) /\ Msg(c).type = "malformed"
        /\ handler[d].pc = "update"
        /\ before[c].session # <<>>

\* ---- C16
\* the message types that are never answered
FireAndForget ==
    {"world_startup", "player_autosave", "player_force_logout",
     "player_ban", "player_mute"}

\* the account table on arrival with the row of the message's username
\* replaced by row, when there is such a row
WithRow(c, row) ==
    [u \in DOMAIN before[c].account |->
        IF u = Msg(c).username THEN row ELSE before[c].account[u]]

\* the session log, the save files and the directories are as on arrival
LogAndSavesKept(c) ==
    /\ session = before[c].session
    /\ files = before[c].files /\ dirs = before[c].dirs

\* C16: handled alone, world_startup, player_autosave, player_force_logout,
\* player_ban and player_mute send no reply; player_ban changes banned_until
\* and player_mute muted_until of the named account to the given time and
\* nothing else, player_force_logout changes logged_in and login_time of
\* the named account to 0 and null and nothing else; these three leave
\* every other account, the session log and the save files as on arrival.
C16_FireAndForget ==
    \A c \in Channels :
        handler[c].pc = "done"
        => /\ Msg(c).type \in FireAndForget => sent[c] = <<>>
           /\ Msg(c).type = "player_ban"
                => /\ account = WithRow(c, [Was(c) EXCEPT
                                   !.banned_until = <<Msg(c).until>>])
                   /\ LogAndSavesKept(c)
           /\ Msg(c).type = "player_mute"
                => /\ account = WithRow(c, [Was(c) EXCEPT
                                   !.muted_until = <<Msg(c).until>>])
                   /\ LogAndSavesKept(c)
           /\ Msg(c).type = "player_force_logout"
                => /\ account = WithRow(c, [Was(c) EXCEPT
                                   !.logged_in = 0, !.login_time = <<>>])
                   /\ LogAndSavesKept(c)

\* a player_force_logout released an owned account beside another account
C16_Witness ==
    \E c \in Channels :
        /\ Ended(c, "player_force_logout") /\ Known(c)
        /\ Was(c).logged_in # 0
        /\ Is(c).logged_in = 0
        /\ Cardinality(DOMAIN account) = 2
        /\ sent[c] = <<>>

\* ---- C17
\* C17: handled alone, with every store and file operation succeeding, a
\* player_login or player_logout that has run to its end has been answered
\* with exactly one reply, which echoes its replyTo: never none, never two.
C17_ExactlyOneReply ==
    \A c \in Channels :
        Ended(c, "player_login") \/ Ended(c, "player_logout")
        => /\ Len(sent[c]) = 1
           /\ sent[c][1].replyTo = Msg(c).replyTo

\* ---- C18
\* C18: handled alone, a login from node N answered with a success code
\* (0 or 4) has ended with logged_in = N on the account of its username.
C18_SuccessMeansOwned ==
    \A c \in Channels :
        Ended(c, "player_login") /\ Codes(c) \cap {0, 4} # {}
        => /\ Msg(c).username \in DOMAIN account
           /\ Is(c).logged_in = Msg(c).nodeId

\* ---- C19
\* C19: with the runs interleaving at every await, no step changes logged_in
\* of an account from one node M # 0 to another node N # 0, N # M.
C19_NoDirectTransfer ==
    [][ \A u \in DOMAIN account :
          ( /\ account[u].logged_in # 0
            /\ u \in DOMAIN account'
            /\ account'[u].logged_in # 0 )
          => account'[u].logged_in = account[u].logged_in ]_vars

\* ---- C20
\* C20: handled alone, a player_ban ends with banned_until of the named
\* account at the given time and logged_in as it was; and a login with the
\* correct password on an account whose ban, as a player_ban stored it, lies
\* in the future from arrival to end is answered with the single reply 5 and
\* leaves the account table, ownership included, as it was.
C20_BanTakesEffect ==
    \A c \in Channels :
        /\ Ended(c, "player_ban") /\ Known(c)
             => /\ Is(c).banned_until = <<Msg(c).until>>
                /\ Is(c).logged_in = Was(c).logged_in
                /\ Is(c).login_time = Was(c).login_time
        /\ CheckedLogin(c) /\ InFuture(Was(c), now)
             => /\ sent[c] = <<Reply(c, 5)>>
                /\ account = before[c].account

\* a banned login from the very node that owns the account: answered 5, not 2
C20_Witness ==
    \E c \in Channels :
        /\ CheckedLogin(c) /\ InFuture(Was(c), now)
        /\ Msg(c).nodeId # 0
        /\ Was(c).logged_in = Msg(c).nodeId
        /\ Is(c).logged_in = Msg(c).nodeId
        /\ Codes(c) = {5}
====
